---- MODULE Spec2Model ----
(***************************************************************************)
(* License server of the plugin: the activate / validate / deactivate     *)
(* handlers of the license controller over the SQLite store.              *)
(*                                                                         *)
(* Every db.get / db.run of the controller is one step: the statement is  *)
(* executed by SQLite (atomically) and its callback runs with the result. *)
(* The handlers never wrap their statements in db.serialize or in a       *)
(* transaction, so the steps of different requests interleave freely.     *)
(* The counter UPDATE issued by activate and deactivate is fire and       *)
(* forget: the response is sent without waiting for it, so it is kept in  *)
(* pendingUpd and executed by a step of its own.  The statements whose    *)
(* result nothing ever reads back (the validation_logs INSERT and the     *)
(* last_validated_at UPDATE) are executed in the step that issues them.   *)
(***************************************************************************)
EXTENDS Integers, FiniteSets, Sequences, Bags, TLC

\* ---------------------------------------------------------------- bounds
MaxReqs == 2        \* requests received in one behaviour of Spec
MaxSeqReqs == 3     \* requests received in one behaviour of SpecSeq
BurstSize == 3      \* simultaneous requests in one behaviour of SpecBurst
MaxFailures == 1    \* statements that end with a storage error
MaxTicks == 1       \* advances of the server clock
MaxClientReqs == 2  \* requests that reach the server in one behaviour of SpecClient

\* ------------------------------------------------------------- constants
ExpiredDate == 0                          \* '2020-01-01 00:00:00'
StartTime == ExpiredDate + 1              \* any instant after that date
MachineIdLen == 32

\* The key of the scenario of the specification, a malformed key, no key.
GoodKey == "PS-A4B3-C8D9-E2F1"
BadKey == "PS-A4B3"
Missing == ""
LowerKey == "ps-a4b3-c8d9-e2f1"            \* GoodKey typed in lower case
PaddedKey == " ps-a4b3-c8d9-e2f1 "         \* and with blanks around it
WellFormedKeys == {GoodKey}

\* String.prototype.toUpperCase and String.prototype.trim on these keys.
toUpperCase(key) ==
    IF key = LowerKey THEN GoodKey
    ELSE IF key = PaddedKey THEN " PS-A4B3-C8D9-E2F1 "
    ELSE key

trim(key) ==
    IF key = PaddedKey THEN LowerKey
    ELSE IF key = " PS-A4B3-C8D9-E2F1 " THEN GoodKey
    ELSE key

\* A machine id is kept as what the validators look at: its length and
\* whether all its characters are hexadecimal digits.
MachineId(tag, len, hex) == [tag |-> tag, len |-> len, hex |-> hex]
Machines == {MachineId("a1b2", MachineIdLen, TRUE),
             MachineId("c3d4", MachineIdLen, TRUE),
             MachineId("e5f6", MachineIdLen, TRUE)}
ShortMachine == MachineId("a1b", MachineIdLen - 1, TRUE)
NoMachine == MachineId("", 0, TRUE)       \* the empty or absent field

\* What the requests of Spec carry: two installations, a malformed and an
\* absent machine id; SpecSeq and SpecBurst have the three installations.
ReqKeys == {GoodKey, BadKey, Missing}
ReqMachines == {MachineId("a1b2", MachineIdLen, TRUE),
                MachineId("c3d4", MachineIdLen, TRUE),
                ShortMachine, NoMachine}
SeqMachines == Machines \cup {ShortMachine, NoMachine}
MaxActivationChoices == {1, 2}

VARIABLES
    licenses,         \* table licenses: license_key -> row
    activations,      \* table activations: a set of rows
    validation_logs,  \* table validation_logs: a bag of rows
    seq,              \* AUTOINCREMENT sequence of activations.id
    reqs,             \* the requests in flight: a bag of handler positions
    credit,           \* how many more requests will arrive
    sent,             \* the response sent last, with its request
    pendingUpd,       \* counter UPDATEs issued and not yet executed: a bag
    failsLeft,        \* storage errors still to come
    now,              \* the clock
    manager,          \* the LicenseManager of one installation (in memory)
    files,            \* what that installation keeps in its data folder
    input             \* input.value of the license key field of the panel

vars == <<licenses, activations, validation_logs, seq, reqs, credit, sent,
          pendingUpd, failsLeft, now, manager, files, input>>

\* ------------------------------------------------------------ validators
validateLicenseKeyFormat(key) ==
    /\ key # Missing
    /\ toUpperCase(key) \in WellFormedKeys

validateMachineId(machineId) ==
    /\ machineId # NoMachine
    /\ machineId.len = MachineIdLen
    /\ machineId.hex

\* ------------------------------------------------------------- the store
Add(bag, e) == bag (+) SetToBag({e})
Remove(bag, e) == bag (-) SetToBag({e})

NewLicense(maxActivations) ==
    [status |-> "active", max_activations |-> maxActivations,
     current_activations |-> 0, expires_at |-> <<>>]

ActivationRows(key, machineId) ==
    {a \in activations : a.license_key = key /\ a.machine_id = machineId}

RowsOf(key) == {a \in activations : a.license_key = key}

IsExpired(license) ==
    license.expires_at # <<>> /\ license.expires_at[1] < now

LogEntry(key, machineId, success, reason) ==
    [license_key |-> key, machine_id |-> machineId,
     success |-> IF success THEN 1 ELSE 0, reason |-> reason]

\* logValidation: one INSERT into validation_logs; its error is only printed.
logValidation(key, machineId, success, reason, ok) ==
    validation_logs' =
        IF ok
        THEN Add(validation_logs, LogEntry(key, machineId, success, reason))
        ELSE validation_logs

\* UPDATE activations SET last_validated_at = CURRENT_TIMESTAMP WHERE id = ?
TouchActivation(id, ok) ==
    activations' =
        IF ok
        THEN {IF a.id = id THEN [a EXCEPT !.last_validated_at = now] ELSE a :
                a \in activations}
        ELSE activations

\* UPDATE licenses SET current_activations = current_activations + delta
CounterUpdate(key, delta) == [license_key |-> key, delta |-> delta]

\* ------------------------------------------------------------- requests
Response(status, success, text) ==
    [status |-> status, success |-> success, text |-> text,
     activationId |-> 0, licenseStatus |-> "", expiresAt |-> <<>>]

NoResponse == Response(0, FALSE, "")
LimitText == "Activation limit reached. Deactivate another device first."
NoLicense == [status |-> "", max_activations |-> 0,
              current_activations |-> 0, expires_at |-> <<>>]

\* A handler between two of its statements: the statement it waits for and
\* the license row its first callback read.
Request(op, key, machineId, pc, license) ==
    [op |-> op, licenseKey |-> key, machineId |-> machineId, pc |-> pc,
     license |-> license]

\* A request arrives; it is counted when the handler first touches the store
\* or answers without touching it.
Receive ==
    /\ credit > 0
    /\ credit' = credit - 1

\* res.status(...).json(...) in the handler's first callback.
Answer(resp) ==
    /\ sent' = resp
    /\ UNCHANGED reqs

\* res.status(...).json(...) in a later callback: the request q leaves.
Respond(q, resp) ==
    /\ sent' = resp
    /\ reqs' = Remove(reqs, q)

At(q, op, pc) ==
    /\ BagIn(q, reqs)
    /\ q.op = op
    /\ q.pc = pc

\* A statement may end with a storage error (its callback gets err) while
\* the budget of failures lasts.
Failed(ok) == IF ok THEN 0 ELSE 1
Spend(n) ==
    /\ n <= failsLeft
    /\ failsLeft' = failsLeft - n

\* ------------------------------------------ the installation's records
\* this.activationState and the JSON of activation.state; NoState is null.
StateData(isActive, licenseKey, timestamp, machineId) ==
    [isNull |-> FALSE, active |-> isActive, licenseKey |-> licenseKey,
     timestamp |-> timestamp, machineId |-> machineId]

NoState ==
    [isNull |-> TRUE, active |-> FALSE, licenseKey |-> Missing,
     timestamp |-> 0, machineId |-> NoMachine]

\* The file activation.state: absent, holding the JSON of a state, or
\* created by createFile and never written.
File(kind, data) == [kind |-> kind, data |-> data]
NoFile == File("absent", NoState)
EmptyFile == File("empty", NoState)

\* The key field of the panel, empty: a string is the sequence of its
\* characters.
NoInput == <<>>

\* What a method of the LicenseManager returned to its caller, and the error
\* types it passed to errorHandler.handle on the way.
Result(op, success, errorType) ==
    [op |-> op, success |-> success, errorType |-> errorType,
     valid |-> FALSE, offline |-> FALSE, error |-> "", handled |-> {}]

NoResult == Result("", FALSE, "")

\* new LicenseManager(...): nothing activated, no machine id cached.
NewManager ==
    [activationState |-> NoState, machineId |-> NoMachine, pc |-> "idle",
     licenseKey |-> Missing, result |-> NoResult]

\* The data folder and localStorage of an installation that never ran;
\* faultsLeft is the number of failures of the two still to come.
NoFiles ==
    [activation_state |-> NoFile, localStorage |-> NoMachine,
     machine_id |-> NoMachine, faultsLeft |-> 0]

Init ==
    /\ licenses \in {[k \in {} |-> NoLicense]} \cup
          {[k \in {GoodKey} |-> NewLicense(m)] : m \in MaxActivationChoices}
    /\ activations = {}
    /\ validation_logs = EmptyBag
    /\ seq = 0
    /\ reqs = EmptyBag
    /\ credit = MaxReqs
    /\ sent = NoResponse
    /\ pendingUpd = EmptyBag
    /\ failsLeft = MaxFailures
    /\ now = StartTime
    /\ manager = NewManager
    /\ input = NoInput
    /\ files = NoFiles

\* ------------------------------------------------------------- activate
\* Mutant: the expiry check is missing.
ActivateVerdict_NoExpiry(key) ==
    IF key \notin DOMAIN licenses THEN "License not found"
    ELSE IF licenses[key].status # "active" THEN "License inactive"
    ELSE "ok"

\* Mutant: expiry is checked before the status.
ActivateVerdict_ExpiryFirst(key) ==
    IF key \notin DOMAIN licenses THEN "License not found"
    ELSE IF IsExpired(licenses[key]) THEN "License expired"
    ELSE IF licenses[key].status # "active" THEN "License inactive"
    ELSE "ok"

\* The checks of the first callback of activate, in their order.
ActivateVerdict(key) ==
    IF key \notin DOMAIN licenses THEN "License not found"
    ELSE IF licenses[key].status # "active" THEN "License inactive"
    ELSE IF IsExpired(licenses[key]) THEN "License expired"
    ELSE "ok"

\* Mutant: the limit check is off by one (> for >=).
LimitReached_OffByOne(license) ==
    license.current_activations > license.max_activations

\* if (license.current_activations >= license.max_activations)
LimitReached(license) ==
    license.current_activations >= license.max_activations

\* exports.activate: the format checks, then
\* SELECT * FROM licenses WHERE license_key = ?  and its callback.
ActivateRequest(key, mid, ok, logOk) ==
    /\ Receive
    /\ IF key = Missing \/ mid = NoMachine
       THEN /\ ok /\ logOk
            /\ Answer(Response(400, FALSE, "Missing licenseKey or machineId"))
            /\ UNCHANGED validation_logs
       ELSE IF ~validateLicenseKeyFormat(key)
       THEN /\ ok /\ logOk
            /\ Answer(Response(400, FALSE, "Invalid license key format"))
            /\ UNCHANGED validation_logs
       ELSE IF ~validateMachineId(mid)
       THEN /\ ok /\ logOk
            /\ Answer(Response(400, FALSE, "Invalid machine ID format"))
            /\ UNCHANGED validation_logs
       ELSE IF ~ok
       THEN /\ logOk
            /\ Answer(Response(500, FALSE, "Database error"))
            /\ UNCHANGED validation_logs
       ELSE IF ActivateVerdict(key) = "License not found"
       THEN /\ logValidation(key, mid, FALSE, "License not found", logOk)
            /\ Answer(Response(404, FALSE, "Invalid license key"))
       ELSE IF ActivateVerdict(key) = "License inactive"
       THEN /\ logValidation(key, mid, FALSE, "License inactive", logOk)
            /\ Answer(Response(403, FALSE, "License is not active"))
       ELSE IF ActivateVerdict(key) = "License expired"
       THEN /\ logValidation(key, mid, FALSE, "License expired", logOk)
            /\ Answer(Response(410, FALSE, "License has expired"))
       ELSE /\ logOk
            /\ reqs' = Add(reqs, Request("activate", key, mid, "getActivation",
                                         licenses[key]))
            /\ UNCHANGED <<sent, validation_logs>>
    /\ Spend(Failed(ok) + Failed(logOk))
    /\ UNCHANGED <<licenses, activations, seq, pendingUpd, now>>

\* Mutant: the already-activated branch issues the counter UPDATE as well.
ActivateGetActivation_Recount(q, ok, touchOk, logOk) ==
    /\ At(q, "activate", "getActivation")
    /\ LET key == q.licenseKey
           mid == q.machineId
           license == q.license
           found == IF ok THEN ActivationRows(key, mid) ELSE {}
       IN  IF found # {}
           THEN /\ TouchActivation((CHOOSE a \in found : TRUE).id, touchOk)
                /\ logValidation(key, mid, TRUE, "Re-validation successful", logOk)
                /\ Respond(q, Response(200, TRUE,
                                "License already activated on this device"))
           ELSE IF LimitReached(license)
           THEN /\ touchOk
                /\ logValidation(key, mid, FALSE, "Activation limit reached", logOk)
                /\ Respond(q, Response(429, FALSE, LimitText))
                /\ UNCHANGED activations
           ELSE /\ touchOk /\ logOk
                /\ reqs' = Add(Remove(reqs, q), [q EXCEPT !.pc = "insert"])
                /\ UNCHANGED <<sent, activations, validation_logs>>
    /\ Spend(Failed(ok) + Failed(touchOk) + Failed(logOk))
    /\ pendingUpd' =
         IF ok /\ ActivationRows(q.licenseKey, q.machineId) # {}
         THEN Add(pendingUpd, CounterUpdate(q.licenseKey, 1))
         ELSE pendingUpd
    /\ UNCHANGED <<licenses, seq, credit, now>>

\* SELECT * FROM activations WHERE license_key = ? AND machine_id = ?  and
\* its callback, which never looks at err: a failed lookup reads as no row.
ActivateGetActivation(q, ok, touchOk, logOk) ==
    /\ At(q, "activate", "getActivation")
    /\ LET key == q.licenseKey
           mid == q.machineId
           license == q.license
           found == IF ok THEN ActivationRows(key, mid) ELSE {}
       IN  IF found # {}
           THEN /\ TouchActivation((CHOOSE a \in found : TRUE).id, touchOk)
                /\ logValidation(key, mid, TRUE, "Re-validation successful", logOk)
                /\ Respond(q, Response(200, TRUE,
                                "License already activated on this device"))
           ELSE IF LimitReached(license)
           THEN /\ touchOk
                /\ logValidation(key, mid, FALSE, "Activation limit reached", logOk)
                /\ Respond(q, Response(429, FALSE, LimitText))
                /\ UNCHANGED activations
           ELSE /\ touchOk /\ logOk
                /\ reqs' = Add(Remove(reqs, q), [q EXCEPT !.pc = "insert"])
                /\ UNCHANGED <<sent, activations, validation_logs>>
    /\ Spend(Failed(ok) + Failed(touchOk) + Failed(logOk))
    /\ UNCHANGED <<licenses, seq, credit, pendingUpd, now>>

\* Mutant: the callback of the INSERT only prints its error.
ActivateInsert_SilentOnError(q, ok, logOk) ==
    /\ At(q, "activate", "insert")
    /\ LET key == q.licenseKey
           mid == q.machineId
           err == ~ok \/ ActivationRows(key, mid) # {}
       IN  IF err
           THEN /\ logOk
                /\ UNCHANGED <<reqs, sent, activations, seq, pendingUpd,
                               validation_logs>>
           ELSE /\ activations' = activations \cup
                      {[id |-> seq + 1, license_key |-> key, machine_id |-> mid,
                        activated_at |-> now, last_validated_at |-> now]}
                /\ seq' = seq + 1
                /\ pendingUpd' = Add(pendingUpd, CounterUpdate(key, 1))
                /\ logValidation(key, mid, TRUE, "Activation successful", logOk)
                /\ Respond(q, [Response(200, TRUE, "License activated successfully")
                                 EXCEPT !.activationId = seq + 1])
    /\ Spend(Failed(ok) + Failed(logOk))
    /\ UNCHANGED <<licenses, credit, now>>

\* Mutant: the table has no UNIQUE(license_key, machine_id).
ActivateInsert_NoUnique(q, ok, logOk) ==
    /\ At(q, "activate", "insert")
    /\ LET key == q.licenseKey
           mid == q.machineId
           err == ~ok
       IN  IF err
           THEN /\ logOk
                /\ Respond(q, Response(500, FALSE, "Failed to activate"))
                /\ UNCHANGED <<activations, seq, pendingUpd, validation_logs>>
           ELSE /\ activations' = activations \cup
                      {[id |-> seq + 1, license_key |-> key, machine_id |-> mid,
                        activated_at |-> now, last_validated_at |-> now]}
                /\ seq' = seq + 1
                /\ pendingUpd' = Add(pendingUpd, CounterUpdate(key, 1))
                /\ logValidation(key, mid, TRUE, "Activation successful", logOk)
                /\ Respond(q, [Response(200, TRUE, "License activated successfully")
                                 EXCEPT !.activationId = seq + 1])
    /\ Spend(Failed(ok) + Failed(logOk))
    /\ UNCHANGED <<licenses, credit, now>>

\* INSERT INTO activations (license_key, machine_id) and its callback:
\* UNIQUE(license_key, machine_id) rejects a second row of the pair.
ActivateInsert(q, ok, logOk) ==
    /\ At(q, "activate", "insert")
    /\ LET key == q.licenseKey
           mid == q.machineId
           err == ~ok \/ ActivationRows(key, mid) # {}
       IN  IF err
           THEN /\ logOk
                /\ Respond(q, Response(500, FALSE, "Failed to activate"))
                /\ UNCHANGED <<activations, seq, pendingUpd, validation_logs>>
           ELSE /\ activations' = activations \cup
                      {[id |-> seq + 1, license_key |-> key, machine_id |-> mid,
                        activated_at |-> now, last_validated_at |-> now]}
                /\ seq' = seq + 1
                /\ pendingUpd' = Add(pendingUpd, CounterUpdate(key, 1))
                /\ logValidation(key, mid, TRUE, "Activation successful", logOk)
                /\ Respond(q, [Response(200, TRUE, "License activated successfully")
                                 EXCEPT !.activationId = seq + 1])
    /\ Spend(Failed(ok) + Failed(logOk))
    /\ UNCHANGED <<licenses, credit, now>>

\* The counter UPDATE of activate or deactivate is executed; its callback
\* only prints an error.
ExecCounterUpdate(u, ok) ==
    /\ BagIn(u, pendingUpd)
    /\ pendingUpd' = Remove(pendingUpd, u)
    /\ licenses' =
         IF ok /\ u.license_key \in DOMAIN licenses
         THEN [licenses EXCEPT ![u.license_key].current_activations = @ + u.delta]
         ELSE licenses
    /\ Spend(Failed(ok))
    /\ UNCHANGED <<activations, validation_logs, seq, reqs, credit, sent, now>>

\* ------------------------------------------------------------- validate
\* Mutant: expiry is checked before the activation of the machine.
ValidateRequest_ExpiryFirst(key, mid, ok, touchOk) ==
    /\ Receive
    /\ LET found == ActivationRows(key, mid)
       IN  IF key = Missing \/ mid = NoMachine
           THEN /\ ok /\ touchOk
                /\ Answer(Response(400, FALSE, "Missing parameters"))
                /\ UNCHANGED activations
           ELSE IF ~ok
           THEN /\ touchOk
                /\ Answer(Response(500, FALSE, "Database error"))
                /\ UNCHANGED activations
           ELSE IF key \notin DOMAIN licenses
           THEN /\ touchOk
                /\ Answer(Response(404, FALSE, "License not found"))
                /\ UNCHANGED activations
           ELSE IF IsExpired(licenses[key])
           THEN /\ touchOk
                /\ Answer(Response(410, FALSE, "License expired"))
                /\ UNCHANGED activations
           ELSE IF found = {}
           THEN /\ touchOk
                /\ Answer(Response(403, FALSE,
                                "License not activated on this device"))
                /\ UNCHANGED activations
           ELSE /\ TouchActivation((CHOOSE a \in found : TRUE).id, touchOk)
                /\ Answer([Response(200, TRUE, "")
                                 EXCEPT !.licenseStatus = licenses[key].status,
                                        !.expiresAt = licenses[key].expires_at])
    /\ Spend(Failed(ok) + Failed(touchOk))
    /\ UNCHANGED <<licenses, validation_logs, seq, pendingUpd, now>>

\* Mutant: validate rejects a license that is not active, as activate does.
ValidateRequest_ChecksStatus(key, mid, ok, touchOk) ==
    /\ Receive
    /\ LET found == ActivationRows(key, mid)
       IN  IF key = Missing \/ mid = NoMachine
           THEN /\ ok /\ touchOk
                /\ Answer(Response(400, FALSE, "Missing parameters"))
                /\ UNCHANGED activations
           ELSE IF ~ok
           THEN /\ touchOk
                /\ Answer(Response(500, FALSE, "Database error"))
                /\ UNCHANGED activations
           ELSE IF key \notin DOMAIN licenses
           THEN /\ touchOk
                /\ Answer(Response(404, FALSE, "License not found"))
                /\ UNCHANGED activations
           ELSE IF licenses[key].status # "active"
           THEN /\ touchOk
                /\ Answer(Response(403, FALSE, "License is not active"))
                /\ UNCHANGED activations
           ELSE IF found = {}
           THEN /\ touchOk
                /\ Answer(Response(403, FALSE,
                                "License not activated on this device"))
                /\ UNCHANGED activations
           ELSE IF IsExpired(licenses[key])
           THEN /\ touchOk
                /\ Answer(Response(410, FALSE, "License expired"))
                /\ UNCHANGED activations
           ELSE /\ TouchActivation((CHOOSE a \in found : TRUE).id, touchOk)
                /\ Answer([Response(200, TRUE, "")
                                 EXCEPT !.licenseStatus = licenses[key].status,
                                        !.expiresAt = licenses[key].expires_at])
    /\ Spend(Failed(ok) + Failed(touchOk))
    /\ UNCHANGED <<licenses, validation_logs, seq, pendingUpd, now>>

\* exports.validate: SELECT l.*, a.id as activation_id FROM licenses l
\* LEFT JOIN activations a ...  and its callback.
ValidateRequest(key, mid, ok, touchOk) ==
    /\ Receive
    /\ LET found == ActivationRows(key, mid)
       IN  IF key = Missing \/ mid = NoMachine
           THEN /\ ok /\ touchOk
                /\ Answer(Response(400, FALSE, "Missing parameters"))
                /\ UNCHANGED activations
           ELSE IF ~ok
           THEN /\ touchOk
                /\ Answer(Response(500, FALSE, "Database error"))
                /\ UNCHANGED activations
           ELSE IF key \notin DOMAIN licenses
           THEN /\ touchOk
                /\ Answer(Response(404, FALSE, "License not found"))
                /\ UNCHANGED activations
           ELSE IF found = {}
           THEN /\ touchOk
                /\ Answer(Response(403, FALSE,
                                "License not activated on this device"))
                /\ UNCHANGED activations
           ELSE IF IsExpired(licenses[key])
           THEN /\ touchOk
                /\ Answer(Response(410, FALSE, "License expired"))
                /\ UNCHANGED activations
           ELSE /\ TouchActivation((CHOOSE a \in found : TRUE).id, touchOk)
                /\ Answer([Response(200, TRUE, "")
                                 EXCEPT !.licenseStatus = licenses[key].status,
                                        !.expiresAt = licenses[key].expires_at])
    /\ Spend(Failed(ok) + Failed(touchOk))
    /\ UNCHANGED <<licenses, validation_logs, seq, pendingUpd, now>>

\* ----------------------------------------------------------- deactivate
\* Mutant: the DELETE matches on the license key alone.
DeleteChanges_AnyMachine(key, mid) == Cardinality(RowsOf(key))

\* this.changes of the DELETE
DeleteChanges(key, mid) == Cardinality(ActivationRows(key, mid))

\* exports.deactivate: DELETE FROM activations WHERE license_key = ? AND
\* machine_id = ?  and its callback.
DeactivateRequest(key, mid, ok) ==
    /\ Receive
    /\ LET changes == DeleteChanges(key, mid)
       IN  IF key = Missing \/ mid = NoMachine
           THEN /\ ok
                /\ Answer(Response(400, FALSE, "Missing parameters"))
                /\ UNCHANGED <<activations, pendingUpd>>
           ELSE IF ~ok
           THEN /\ Answer(Response(500, FALSE, "Deactivation failed"))
                /\ UNCHANGED <<activations, pendingUpd>>
           ELSE IF changes = 0
           THEN /\ Answer(Response(404, FALSE, "Activation not found"))
                /\ UNCHANGED <<activations, pendingUpd>>
           ELSE /\ activations' = activations \ ActivationRows(key, mid)
                /\ pendingUpd' = Add(pendingUpd, CounterUpdate(key, -1))
                /\ Answer(Response(200, TRUE, "License deactivated"))
    /\ Spend(Failed(ok))
    /\ UNCHANGED <<licenses, validation_logs, seq, now>>

\* ------------------------------------------------------- the environment
\* Menu entry 3 of the test scenarios: UPDATE licenses SET status = 'inactive'.
AdminDeactivate(key) ==
    /\ key \in DOMAIN licenses
    /\ licenses[key].status = "active"
    /\ licenses' = [licenses EXCEPT ![key].status = "inactive"]
    /\ UNCHANGED <<activations, validation_logs, seq, reqs, credit, sent, pendingUpd,
                   failsLeft, now>>

\* Menu entry 4: UPDATE licenses SET expires_at = '2020-01-01 00:00:00'.
AdminExpire(key) ==
    /\ key \in DOMAIN licenses
    /\ licenses[key].expires_at = <<>>
    /\ licenses' = [licenses EXCEPT ![key].expires_at = <<ExpiredDate>>]
    /\ UNCHANGED <<activations, validation_logs, seq, reqs, credit, sent, pendingUpd,
                   failsLeft, now>>

\* new Date() / CURRENT_TIMESTAMP advance.
Tick ==
    /\ now < StartTime + MaxTicks
    /\ now' = now + 1
    /\ UNCHANGED <<licenses, activations, validation_logs, seq, reqs, credit,
                   sent, pendingUpd, failsLeft>>

\* A step of the server, or of its administrator or clock, is no step of
\* the installation.
Server(A) == A /\ UNCHANGED <<manager, files, input>>

Next ==
    \/ \E key \in ReqKeys, mid \in ReqMachines, ok \in BOOLEAN, logOk \in BOOLEAN :
          Server(ActivateRequest(key, mid, ok, logOk))
    \/ \E q \in BagToSet(reqs), ok \in BOOLEAN, touchOk \in BOOLEAN, logOk \in BOOLEAN :
          Server(ActivateGetActivation(q, ok, touchOk, logOk))
    \/ \E q \in BagToSet(reqs), ok \in BOOLEAN, logOk \in BOOLEAN :
          Server(ActivateInsert(q, ok, logOk))
    \/ \E u \in BagToSet(pendingUpd), ok \in BOOLEAN : Server(ExecCounterUpdate(u, ok))
    \/ \E key \in ReqKeys, mid \in ReqMachines, ok \in BOOLEAN, touchOk \in BOOLEAN :
          Server(ValidateRequest(key, mid, ok, touchOk))
    \/ \E key \in ReqKeys, mid \in ReqMachines, ok \in BOOLEAN :
          Server(DeactivateRequest(key, mid, ok))
    \/ \E key \in DOMAIN licenses : Server(AdminDeactivate(key))
    \/ \E key \in DOMAIN licenses : Server(AdminExpire(key))
    \/ Server(Tick)

Spec == Init /\ [][Next]_vars

\* Every database call of a request in flight invokes its callback, with or
\* without an error.
Callback ==
    \/ \E q \in BagToSet(reqs), ok \in BOOLEAN, touchOk \in BOOLEAN, logOk \in BOOLEAN :
          Server(ActivateGetActivation(q, ok, touchOk, logOk))
    \/ \E q \in BagToSet(reqs), ok \in BOOLEAN, logOk \in BOOLEAN :
          Server(ActivateInsert(q, ok, logOk))

\* The requests and their callbacks alone: the clock stands still and the
\* administrator does nothing.
NextLive ==
    \/ \E key \in ReqKeys, mid \in ReqMachines, ok \in BOOLEAN, logOk \in BOOLEAN :
          Server(ActivateRequest(key, mid, ok, logOk))
    \/ \E q \in BagToSet(reqs), ok \in BOOLEAN, touchOk \in BOOLEAN, logOk \in BOOLEAN :
          Server(ActivateGetActivation(q, ok, touchOk, logOk))
    \/ \E q \in BagToSet(reqs), ok \in BOOLEAN, logOk \in BOOLEAN :
          Server(ActivateInsert(q, ok, logOk))
    \/ \E u \in BagToSet(pendingUpd), ok \in BOOLEAN : Server(ExecCounterUpdate(u, ok))
    \/ \E key \in ReqKeys, mid \in ReqMachines, ok \in BOOLEAN, touchOk \in BOOLEAN :
          Server(ValidateRequest(key, mid, ok, touchOk))
    \/ \E key \in ReqKeys, mid \in ReqMachines, ok \in BOOLEAN :
          Server(DeactivateRequest(key, mid, ok))

SpecLive == Init /\ [][NextLive]_vars /\ WF_vars(Callback)

\* ---------------------------------------------- one request at a time
\* Nothing of an earlier request is left to do: no handler waits for a
\* statement and no counter UPDATE waits to be executed.
Quiescent == reqs = EmptyBag /\ pendingUpd = EmptyBag

InitSeq ==
    /\ licenses \in {[k \in {GoodKey} |-> NewLicense(m)] : m \in MaxActivationChoices}
    /\ activations = {}
    /\ validation_logs = EmptyBag
    /\ seq = 0
    /\ reqs = EmptyBag
    /\ credit = MaxSeqReqs
    /\ sent = NoResponse
    /\ pendingUpd = EmptyBag
    /\ failsLeft = 0
    /\ now = StartTime
    /\ manager = NewManager
    /\ input = NoInput
    /\ files = NoFiles

\* A request, or a menu entry of the test scenarios, starts only when the
\* request before it is through; no statement fails.
NextSeq ==
    \/ /\ Quiescent
       /\ \E key \in ReqKeys, mid \in SeqMachines :
             Server(ActivateRequest(key, mid, TRUE, TRUE))
    \/ \E q \in BagToSet(reqs) : Server(ActivateGetActivation(q, TRUE, TRUE, TRUE))
    \/ \E q \in BagToSet(reqs) : Server(ActivateInsert(q, TRUE, TRUE))
    \/ \E u \in BagToSet(pendingUpd) : Server(ExecCounterUpdate(u, TRUE))
    \/ /\ Quiescent
       /\ \E key \in ReqKeys, mid \in SeqMachines :
             Server(ValidateRequest(key, mid, TRUE, TRUE))
    \/ /\ Quiescent
       /\ \E key \in ReqKeys, mid \in SeqMachines :
             Server(DeactivateRequest(key, mid, TRUE))
    \/ /\ Quiescent
       /\ \E key \in DOMAIN licenses : Server(AdminDeactivate(key))
    \/ /\ Quiescent
       /\ \E key \in DOMAIN licenses : Server(AdminExpire(key))
    \/ Server(Tick)

SpecSeq == InitSeq /\ [][NextSeq]_vars

\* ------------------------------------ simultaneous activations of a key
\* The machine already sent its activate request: the request is in flight
\* or its outcome is in the validation log.
Seen(mid) ==
    \/ \E q \in BagToSet(reqs) : q.machineId = mid
    \/ \E e \in BagToSet(validation_logs) : e.machine_id = mid

InitBurst ==
    /\ licenses \in {[k \in {GoodKey} |-> NewLicense(m)] : m \in MaxActivationChoices}
    /\ activations = {}
    /\ validation_logs = EmptyBag
    /\ seq = 0
    /\ reqs = EmptyBag
    /\ credit = BurstSize
    /\ sent = NoResponse
    /\ pendingUpd = EmptyBag
    /\ failsLeft = 0
    /\ now = StartTime
    /\ manager = NewManager
    /\ input = NoInput
    /\ files = NoFiles

\* Distinct machines activate the fresh license; the statements of their
\* requests interleave in any order; no statement fails.
NextBurst ==
    \/ \E mid \in Machines :
          /\ ~Seen(mid)
          /\ Server(ActivateRequest(GoodKey, mid, TRUE, TRUE))
    \/ \E q \in BagToSet(reqs) : Server(ActivateGetActivation(q, TRUE, TRUE, TRUE))
    \/ \E q \in BagToSet(reqs) : Server(ActivateInsert(q, TRUE, TRUE))
    \/ \E u \in BagToSet(pendingUpd) : Server(ExecCounterUpdate(u, TRUE))

SpecBurst == InitBurst /\ [][NextBurst]_vars

\* ------------------------------------------- keys typed in either case
\* The requests carry the stored key as generated (upper case) or the same
\* key in lower case; everything else is as in Spec.
CaseKeys == {GoodKey, LowerKey}

NextCase ==
    \/ \E key \in CaseKeys, mid \in ReqMachines, ok \in BOOLEAN, logOk \in BOOLEAN :
          Server(ActivateRequest(key, mid, ok, logOk))
    \/ \E q \in BagToSet(reqs), ok \in BOOLEAN, touchOk \in BOOLEAN, logOk \in BOOLEAN :
          Server(ActivateGetActivation(q, ok, touchOk, logOk))
    \/ \E q \in BagToSet(reqs), ok \in BOOLEAN, logOk \in BOOLEAN :
          Server(ActivateInsert(q, ok, logOk))
    \/ \E u \in BagToSet(pendingUpd), ok \in BOOLEAN : Server(ExecCounterUpdate(u, ok))
    \/ \E key \in CaseKeys, mid \in ReqMachines, ok \in BOOLEAN, touchOk \in BOOLEAN :
          Server(ValidateRequest(key, mid, ok, touchOk))
    \/ \E key \in CaseKeys, mid \in ReqMachines, ok \in BOOLEAN :
          Server(DeactivateRequest(key, mid, ok))
    \/ \E key \in DOMAIN licenses : Server(AdminDeactivate(key))
    \/ \E key \in DOMAIN licenses : Server(AdminExpire(key))
    \/ Server(Tick)

SpecCase == Init /\ [][NextCase]_vars

\* ===================================================== the installation
\* The LicenseManager of the plugin.  The clock counts half days: DayMs is
\* the 1000 * 60 * 60 * 24 ms of the source in that unit, so that the floor
\* of getOfflineModeDays has something to cut off.
DayMs == 2
WarnDays == 30
StaleDays == 90

\* Mutant: the format of the key is not tested.
validateLicenseKey_NoFormat(key) ==
    IF key = Missing
    THEN [valid |-> FALSE, key |-> Missing, error |-> "License key is required"]
    ELSE [valid |-> TRUE, key |-> toUpperCase(trim(key)), error |-> ""]

\* Validator.validateLicenseKey
validateLicenseKey(key) ==
    LET cleanKey == toUpperCase(trim(key))
    IN  IF key = Missing
        THEN [valid |-> FALSE, key |-> Missing, error |-> "License key is required"]
        ELSE IF cleanKey \notin WellFormedKeys
        THEN [valid |-> FALSE, key |-> Missing,
              error |-> "Invalid format. Use: PS-XXXX-XXXX-XXXX"]
        ELSE [valid |-> TRUE, key |-> cleanKey, error |-> ""]

isActivated ==
    ~manager.activationState.isNull /\ manager.activationState.active

getOfflineModeDays ==
    IF manager.activationState.isNull \/ manager.activationState.timestamp = 0
    THEN 0
    ELSE (now - manager.activationState.timestamp) \div DayMs

isInOfflineMode == isActivated /\ getOfflineModeDays > 0

\* Mutant: the warning starts on the 30th day.
shouldWarnAboutOfflineMode_AtThirty == getOfflineModeDays >= WarnDays

shouldWarnAboutOfflineMode == getOfflineModeDays > WarnDays

\* A stored id that is 32 characters long but not hexadecimal.
NonHexMachine == MachineId("g7h8", MachineIdLen, FALSE)
ThisMachine == MachineId("a1b2", MachineIdLen, TRUE)
OtherMachine == MachineId("c3d4", MachineIdLen, TRUE)

\* Mutant: the session-only id is handed out without a report.
getMachineId_SilentFallback(lsOk, fsOk, gen) ==
    LET kept == [id |-> manager.machineId, localStorage |-> files.localStorage,
                 machine_id |-> files.machine_id, handled |-> {}, faults |-> 0]
    IN  IF manager.machineId # NoMachine
        THEN kept
        ELSE IF lsOk
        THEN IF files.localStorage # NoMachine /\ files.localStorage.len = MachineIdLen
             THEN [kept EXCEPT !.id = files.localStorage]
             ELSE [kept EXCEPT !.id = gen, !.localStorage = gen]
        ELSE IF fsOk
        THEN IF files.machine_id # NoMachine /\ files.machine_id.len = MachineIdLen
             THEN [kept EXCEPT !.id = files.machine_id, !.faults = 1]
             ELSE [kept EXCEPT !.id = gen, !.machine_id = gen, !.faults = 1]
        ELSE [kept EXCEPT !.id = gen, !.faults = 1]

\* getMachineId: the id it returns, what it leaves in localStorage and in
\* the file machine.id, and what it reports; lsOk and fsOk tell whether
\* localStorage and the file system work, gen is what
\* _generateRandomHex(32) produces.
getMachineId(lsOk, fsOk, gen) ==
    LET kept == [id |-> manager.machineId, localStorage |-> files.localStorage,
                 machine_id |-> files.machine_id, handled |-> {}, faults |-> 0]
    IN  IF manager.machineId # NoMachine
        THEN kept
        ELSE IF lsOk
        THEN IF files.localStorage # NoMachine /\ files.localStorage.len = MachineIdLen
             THEN [kept EXCEPT !.id = files.localStorage]
             ELSE [kept EXCEPT !.id = gen, !.localStorage = gen]
        ELSE IF fsOk
        THEN IF files.machine_id # NoMachine /\ files.machine_id.len = MachineIdLen
             THEN [kept EXCEPT !.id = files.machine_id, !.faults = 1]
             ELSE [kept EXCEPT !.id = gen, !.machine_id = gen, !.faults = 1]
        ELSE [kept EXCEPT !.id = gen, !.handled = {"STORAGE_ERROR"}, !.faults = 1]

\* The inputs of a call that have no part in it are fixed, so that a step
\* is not counted once for each of their values.
Unused(lsOk, fsOk, gen) ==
    /\ manager.machineId # NoMachine => (lsOk /\ fsOk /\ gen = ThisMachine)
    /\ lsOk => fsOk
    /\ (/\ manager.machineId = NoMachine /\ lsOk
        /\ files.localStorage # NoMachine /\ files.localStorage.len = MachineIdLen)
          => gen = ThisMachine

\* The file system and localStorage fail while their budget lasts.
Fault(stored, n) ==
    /\ n <= files.faultsLeft
    /\ files' = [stored EXCEPT !.faultsLeft = @ - n]

\* saveActivationState: the state kept in memory and what becomes of the
\* file; when the file system fails the file is left as it was or, created
\* by createFile and not written, left empty.
saveActivationState(isActive, licenseKey, writeOk, created) ==
    LET stateData == StateData(isActive, licenseKey, now, manager.machineId)
    IN  [activationState |-> stateData,
         activation_state |-> IF writeOk THEN File("json", stateData)
                              ELSE IF created THEN EmptyFile
                              ELSE files.activation_state,
         handled |-> IF writeOk THEN {} ELSE {"STORAGE_ERROR"},
         faults |-> Failed(writeOk)]

\* A step of the installation alone: the server is not reached.
ServerIdle ==
    UNCHANGED <<licenses, activations, validation_logs, seq, reqs, credit, sent,
                pendingUpd, failsLeft, now>>

\* Mutant: a call that could not reach the server forgets the activation.
Return_ForgetsOffline(m, result) ==
    [m EXCEPT !.pc = "idle", !.result = result,
              !.activationState =
                  IF result.errorType \in {"TIMEOUT_ERROR", "NETWORK_ERROR"}
                  THEN NoState ELSE @]

\* Mutant: a call that the server rejected forgets the activation.
Return_ForgetsRejected(m, result) ==
    [m EXCEPT !.pc = "idle", !.result = result,
              !.activationState =
                  IF result.errorType \in {"LICENSE_INVALID", "LICENSE_EXPIRED",
                                           "LICENSE_LIMIT_REACHED", "SERVER_ERROR"}
                  THEN NoState ELSE @]

\* A method returns its result to the caller.
Return(m, result) == [m EXCEPT !.pc = "idle", !.result = result]

\* Mutant: an expired license is reported as an invalid one.
ActivateErrorType_ExpiredInvalid(status) ==
    IF status = 404 THEN "LICENSE_INVALID"
    ELSE IF status = 410 THEN "LICENSE_INVALID"
    ELSE IF status = 429 THEN "LICENSE_LIMIT_REACHED"
    ELSE IF status = 403 THEN "LICENSE_INVALID"
    ELSE "SERVER_ERROR"

\* activateLicense: the errorType of a response that is not a success.
ActivateErrorType(status) ==
    IF status = 404 THEN "LICENSE_INVALID"
    ELSE IF status = 410 THEN "LICENSE_EXPIRED"
    ELSE IF status = 429 THEN "LICENSE_LIMIT_REACHED"
    ELSE IF status = 403 THEN "LICENSE_INVALID"
    ELSE "SERVER_ERROR"

ActivateErrorText(resp) ==
    IF resp.status = 404 THEN "Invalid license key"
    ELSE IF resp.status = 410 THEN "License has expired"
    ELSE IF resp.status = 429 THEN LimitText
    ELSE IF resp.status = 403 THEN "License is not active"
    ELSE IF resp.text # "" THEN resp.text
    ELSE "Activation failed"

\* activateLicense up to its fetch: the key is validated, the machine id
\* resolved and the request sent; net tells what becomes of the fetch.
activateLicense(rawKey, lsOk, fsOk, gen, net, ok, logOk) ==
    /\ manager.pc = "idle"
    /\ LET validation == validateLicenseKey(rawKey)
           got == getMachineId(lsOk, fsOk, gen)
           known == [manager EXCEPT !.machineId = got.id]
           stored == [files EXCEPT !.localStorage = got.localStorage,
                                   !.machine_id = got.machine_id]
           failure(errorType) == [Result("activateLicense", FALSE, errorType)
                                     EXCEPT !.handled = got.handled]
       IN  IF ~validation.valid
           THEN /\ lsOk /\ fsOk /\ ok /\ logOk /\ net = "delivered" /\ gen = ThisMachine
                /\ manager' = Return(manager,
                       [Result("activateLicense", FALSE, "VALIDATION_ERROR")
                           EXCEPT !.error = validation.error])
                /\ files' = files
                /\ ServerIdle
           ELSE IF net = "refused"
           THEN /\ ok /\ logOk /\ Unused(lsOk, fsOk, gen)
                /\ manager' = Return(known,
                       [failure("NETWORK_ERROR")
                           EXCEPT !.handled = @ \cup {"NETWORK_ERROR"}])
                /\ Fault(stored, got.faults)
                /\ ServerIdle
           ELSE IF net = "aborted"
           THEN /\ ok /\ logOk /\ Unused(lsOk, fsOk, gen)
                /\ manager' = Return(known, failure("TIMEOUT_ERROR"))
                /\ Fault(stored, got.faults)
                /\ ServerIdle
           ELSE /\ Unused(lsOk, fsOk, gen)
                /\ ActivateRequest(validation.key, got.id, ok, logOk)
                /\ manager' = [known EXCEPT !.pc = "activate",
                                            !.licenseKey = validation.key,
                                            !.result = failure("")]
                /\ Fault(stored, got.faults)

\* activateLicense after its fetch: the response is read and mapped.
activateLicenseResponse(writeOk, created) ==
    /\ manager.pc = "activate"
    /\ reqs = EmptyBag
    /\ LET saved == saveActivationState(TRUE, manager.licenseKey, writeOk, created)
           result(success, errorType) ==
               [Result("activateLicense", success, errorType)
                   EXCEPT !.handled = manager.result.handled]
       IN  IF sent.status = 200 /\ sent.success
           THEN /\ writeOk => created
                /\ manager' = Return([manager EXCEPT
                                         !.activationState = saved.activationState],
                                     [result(TRUE, "") EXCEPT
                                         !.handled = @ \cup saved.handled])
                /\ Fault([files EXCEPT !.activation_state = saved.activation_state],
                         saved.faults)
           ELSE /\ writeOk /\ created
                /\ manager' = Return(manager,
                       [result(FALSE, ActivateErrorType(sent.status))
                           EXCEPT !.error = ActivateErrorText(sent)])
                /\ files' = files
    /\ ServerIdle

\* activateLicense: the fetch is aborted after 10 s, or the connection
\* breaks, while the server still works on the request.
activateLicenseCatch(errorType) ==
    /\ manager.pc = "activate"
    /\ manager' = Return(manager,
           [Result("activateLicense", FALSE, errorType) EXCEPT !.handled =
               manager.result.handled \cup
                 (IF errorType = "NETWORK_ERROR" THEN {errorType} ELSE {})])
    /\ files' = files
    /\ ServerIdle

\* data.valid of a response body: the field is read, absent fields are falsy.
dataValid(resp) == "valid" \in DOMAIN resp /\ resp.valid

\* validateWithServer; net tells what becomes of the fetch ("lost": the
\* server handles the request and its response does not arrive).
validateWithServer(argKey, lsOk, fsOk, gen, net, ok, touchOk) ==
    /\ manager.pc = "idle"
    /\ LET keyToValidate == IF argKey # Missing THEN argKey
                            ELSE manager.activationState.licenseKey
           got == getMachineId(lsOk, fsOk, gen)
           known == [manager EXCEPT !.machineId = got.id]
           stored == [files EXCEPT !.localStorage = got.localStorage,
                                   !.machine_id = got.machine_id]
           blank == [Result("validateWithServer", FALSE, "")
                        EXCEPT !.handled = got.handled]
           offline == [blank EXCEPT !.valid = TRUE, !.offline = TRUE]
       IN  IF keyToValidate = Missing
           THEN /\ lsOk /\ fsOk /\ ok /\ touchOk /\ net = "delivered" /\ gen = ThisMachine
                /\ manager' = Return(manager,
                       [Result("validateWithServer", FALSE, "")
                           EXCEPT !.error = "No license key to validate"])
                /\ files' = files
                /\ ServerIdle
           ELSE IF net = "refused"
           THEN /\ ok /\ touchOk /\ Unused(lsOk, fsOk, gen)
                /\ manager' = Return(known, offline)
                /\ Fault(stored, got.faults)
                /\ ServerIdle
           ELSE /\ Unused(lsOk, fsOk, gen)
                /\ ValidateRequest(keyToValidate, got.id, ok, touchOk)
                /\ manager' = Return(known,
                       IF net = "lost" THEN offline
                       ELSE IF sent'.status = 200 /\ dataValid(sent')
                       THEN [blank EXCEPT !.valid = TRUE]
                       ELSE [blank EXCEPT !.error = sent'.text])
                /\ Fault(stored, got.faults)

\* Mutant: resetLicense also gives the activation slot back.
resetLicense_Deactivates(deleteOk) ==
    /\ manager.pc = "idle"
    /\ deleteOk \/ files.activation_state.kind # "absent"
    /\ manager' = Return([manager EXCEPT !.activationState = NoState],
                         Result("resetLicense", TRUE, ""))
    /\ Fault([files EXCEPT !.activation_state = IF deleteOk THEN NoFile ELSE @],
             Failed(deleteOk))
    /\ activations' = {a \in activations : a.machine_id # manager.machineId}
    /\ UNCHANGED <<licenses, validation_logs, seq, reqs, credit, sent, pendingUpd,
                   failsLeft, now>>

\* resetLicense; deleteOk tells whether the file system works.
resetLicense(deleteOk) ==
    /\ manager.pc = "idle"
    /\ deleteOk \/ files.activation_state.kind # "absent"
    /\ manager' = Return([manager EXCEPT !.activationState = NoState],
                         Result("resetLicense", TRUE, ""))
    /\ Fault([files EXCEPT !.activation_state = IF deleteOk THEN NoFile ELSE @],
             Failed(deleteOk))
    /\ ServerIdle

\* checkServerStatus: GET /health, which reads and writes nothing.
checkServerStatus(online) ==
    /\ manager.pc = "idle"
    /\ manager' = Return(manager, Result("checkServerStatus", online, ""))
    /\ files' = files
    /\ ServerIdle

\* loadActivationState: the state it reads from activation.state and
\* returns, or NoState (null) when the file is absent, unreadable or does
\* not parse.
loadActivationState(readOk) ==
    IF readOk /\ files.activation_state.kind = "json"
    THEN files.activation_state.data
    ELSE NoState

\* App.initialize, when the plugin is started (again): a new
\* LicenseManager, then loadActivationState.
initialize(readOk) ==
    /\ readOk \/ files.activation_state.kind = "json"
    /\ LET data == loadActivationState(readOk)
       IN  manager' = [NewManager EXCEPT !.activationState = data,
                          !.result = Result("loadActivationState", ~data.isNull, "")]
    /\ Fault(files, Failed(readOk))
    /\ ServerIdle

\* A step of the LicenseManager: the key field of the panel is not touched.
Client(A) == A /\ UNCHANGED input

\* ------------------------------------- one installation and the server
\* The clock starts late enough for an activation older than StaleDays.
ClientStart == StartTime + (StaleDays + 1) * DayMs

\* How long ago (in clock units) the installation was activated: just now,
\* less than a day, one day, 30 days, almost 31, 31, 40 and 91 days.
Ages == {0, DayMs - 1, DayMs, WarnDays * DayMs, (WarnDays + 1) * DayMs - 1,
         (WarnDays + 1) * DayMs, (WarnDays + 10) * DayMs, (StaleDays + 1) * DayMs}

\* What the localStorage of the installation may hold under machine_id.
StoredIds == {NoMachine, ThisMachine, ShortMachine, NonHexMachine}

\* The plugin is not running and was never activated; its localStorage is
\* empty or holds an id of 32 characters that are not all hexadecimal.
InitClient ==
    /\ licenses \in {[k \in {} |-> NoLicense], [k \in {GoodKey} |-> NewLicense(1)]}
    /\ activations = {}
    /\ validation_logs = EmptyBag
    /\ seq = 0
    /\ reqs = EmptyBag
    /\ credit = MaxClientReqs
    /\ sent = NoResponse
    /\ pendingUpd = EmptyBag
    /\ failsLeft = 0
    /\ now = ClientStart
    /\ manager = NewManager
    /\ input = NoInput
    /\ files \in {[NoFiles EXCEPT !.localStorage = id] : id \in {NoMachine, NonHexMachine}}

ClientTick ==
    /\ now < ClientStart + MaxTicks
    /\ now' = now + 1
    /\ UNCHANGED <<licenses, activations, validation_logs, seq, reqs, credit,
                   sent, pendingUpd, failsLeft, manager, files>>

RawKeys == {GoodKey, PaddedKey, BadKey, Missing}

\* The user works with one installation; another installation activates the
\* same key; the administrator deactivates or expires the license.  A
\* request is sent when the server is through with the one before it; no
\* statement of the server and no storage of the installation fails.
NextClient ==
    \/ \E rawKey \in RawKeys, gen \in {ThisMachine, OtherMachine},
          net \in {"delivered", "refused", "aborted"} :
          /\ reqs = EmptyBag
          /\ Client(activateLicense(rawKey, TRUE, TRUE, gen, net, TRUE, TRUE))
    \/ Client(activateLicenseResponse(TRUE, TRUE))
    \/ \E errorType \in {"TIMEOUT_ERROR", "NETWORK_ERROR"} :
          Client(activateLicenseCatch(errorType))
    \/ \E argKey \in {Missing, GoodKey}, gen \in {ThisMachine, OtherMachine},
          net \in {"delivered", "refused", "lost"} :
          /\ reqs = EmptyBag
          /\ Client(validateWithServer(argKey, TRUE, TRUE, gen, net, TRUE, TRUE))
    \/ Client(resetLicense(TRUE))
    \/ Client(initialize(TRUE))
    \/ /\ reqs = EmptyBag /\ manager.pc = "idle"
       /\ Server(ActivateRequest(GoodKey, OtherMachine, TRUE, TRUE))
    \/ \E q \in BagToSet(reqs) : Server(ActivateGetActivation(q, TRUE, TRUE, TRUE))
    \/ \E q \in BagToSet(reqs) : Server(ActivateInsert(q, TRUE, TRUE))
    \/ \E u \in BagToSet(pendingUpd) : Server(ExecCounterUpdate(u, TRUE))
    \/ \E key \in DOMAIN licenses : Server(AdminDeactivate(key))
    \/ \E key \in DOMAIN licenses : Server(AdminExpire(key))
    \/ Client(ClientTick)

SpecClient == InitClient /\ [][NextClient]_vars

\* ------------------------------- the installation with failing storage
\* The license is there and nobody else uses it; localStorage and the file
\* system of the installation fail MaxFailures times.  The clock stands
\* still: no storage operation looks at it.
InitFaulty ==
    /\ licenses = [k \in {GoodKey} |-> NewLicense(1)]
    /\ activations = {}
    /\ validation_logs = EmptyBag
    /\ seq = 0
    /\ reqs = EmptyBag
    /\ credit = MaxClientReqs
    /\ sent = NoResponse
    /\ pendingUpd = EmptyBag
    /\ failsLeft = 0
    /\ now = ClientStart
    /\ manager = NewManager
    /\ input = NoInput
    /\ files \in {[NoFiles EXCEPT !.localStorage = id, !.faultsLeft = MaxFailures] :
                    id \in StoredIds}

NextFaulty ==
    \/ \E rawKey \in RawKeys, lsOk \in BOOLEAN, fsOk \in BOOLEAN,
          gen \in {ThisMachine, OtherMachine},
          net \in {"delivered", "refused", "aborted"} :
          /\ reqs = EmptyBag
          /\ Client(activateLicense(rawKey, lsOk, fsOk, gen, net, TRUE, TRUE))
    \/ \E writeOk \in BOOLEAN, created \in BOOLEAN :
          Client(activateLicenseResponse(writeOk, created))
    \/ \E errorType \in {"TIMEOUT_ERROR", "NETWORK_ERROR"} :
          Client(activateLicenseCatch(errorType))
    \/ \E deleteOk \in BOOLEAN : Client(resetLicense(deleteOk))
    \/ \E readOk \in BOOLEAN : Client(initialize(readOk))
    \/ \E q \in BagToSet(reqs) : Server(ActivateGetActivation(q, TRUE, TRUE, TRUE))
    \/ \E q \in BagToSet(reqs) : Server(ActivateInsert(q, TRUE, TRUE))
    \/ \E u \in BagToSet(pendingUpd) : Server(ExecCounterUpdate(u, TRUE))

SpecFaulty == InitFaulty /\ [][NextFaulty]_vars

\* As SpecFaulty, with a license that admits two machines, so that an
\* installation that lost its id can activate again under a new one.
InitReset ==
    /\ licenses = [k \in {GoodKey} |-> NewLicense(2)]
    /\ activations = {}
    /\ validation_logs = EmptyBag
    /\ seq = 0
    /\ reqs = EmptyBag
    /\ credit = MaxClientReqs
    /\ sent = NoResponse
    /\ pendingUpd = EmptyBag
    /\ failsLeft = 0
    /\ now = ClientStart
    /\ manager = NewManager
    /\ input = NoInput
    /\ files \in {[NoFiles EXCEPT !.localStorage = id, !.faultsLeft = MaxFailures] :
                    id \in StoredIds}

SpecReset == InitReset /\ [][NextFaulty]_vars

\* ------------------------------------- the installation without a server
\* The plugin is not running.  Either it was never activated, or it was
\* activated on ThisMachine some time ago: the server has the Activation row
\* and the data folder has the state saved then.
InitOffline ==
    /\ seq \in {0, 1}
    /\ IF seq = 0
       THEN /\ licenses = [k \in {GoodKey} |-> NewLicense(1)]
            /\ activations = {}
            /\ validation_logs = EmptyBag
            /\ files \in {[NoFiles EXCEPT !.localStorage = id, !.faultsLeft = MaxFailures] :
                    id \in StoredIds}
       ELSE \E age \in Ages :
            /\ licenses = [k \in {GoodKey} |->
                              [NewLicense(1) EXCEPT !.current_activations = 1]]
            /\ activations =
                  {[id |-> 1, license_key |-> GoodKey, machine_id |-> ThisMachine,
                    activated_at |-> ClientStart - age,
                    last_validated_at |-> ClientStart - age]}
            /\ validation_logs =
                  SetToBag({LogEntry(GoodKey, ThisMachine, TRUE, "Activation successful")})
            /\ files = [activation_state |->
                           File("json", StateData(TRUE, GoodKey, ClientStart - age,
                                                  ThisMachine)),
                        localStorage |-> ThisMachine, machine_id |-> NoMachine,
                        faultsLeft |-> MaxFailures]
    /\ reqs = EmptyBag
    /\ credit = 0
    /\ sent = NoResponse
    /\ pendingUpd = EmptyBag
    /\ failsLeft = 0
    /\ now = ClientStart
    /\ manager = NewManager
    /\ input = NoInput

\* The server is unreachable: every fetch is refused or aborted.
NextOffline ==
    \/ \E rawKey \in RawKeys, lsOk \in BOOLEAN, fsOk \in BOOLEAN,
          gen \in {ThisMachine, OtherMachine}, net \in {"refused", "aborted"} :
          Client(activateLicense(rawKey, lsOk, fsOk, gen, net, TRUE, TRUE))
    \/ \E argKey \in {Missing, GoodKey}, lsOk \in BOOLEAN, fsOk \in BOOLEAN,
          gen \in {ThisMachine, OtherMachine} :
          Client(validateWithServer(argKey, lsOk, fsOk, gen, "refused", TRUE, TRUE))
    \/ \E deleteOk \in BOOLEAN : Client(resetLicense(deleteOk))
    \/ Client(checkServerStatus(FALSE))
    \/ \E readOk \in BOOLEAN : Client(initialize(readOk))
    \/ Client(ClientTick)

SpecOffline == InitOffline /\ [][NextOffline]_vars

\* ------------------------------------------------- the license key field
\* Strings are sequences of characters.  The characters a user types or
\* pastes here: a hexadecimal digit, a hexadecimal letter in either case,
\* the letters of the prefix, a dash, and a letter that is none of these.
MaxPaste == 3       \* characters of a pasted text
KeyLen == 17
GroupLen == 4
TypedChars == {"4", "a", "A", "p", "S", "-", "g"}

\* String.prototype.toUpperCase, character by character.
toUpperCaseChar(c) ==
    IF c = "a" THEN "A"
    ELSE IF c = "p" THEN "P"
    ELSE IF c = "g" THEN "G"
    ELSE c

\* The characters that /[^A-F0-9-]/g leaves.
KeptChars == {"A", "B", "C", "D", "E", "F", "0", "1", "2", "3", "4", "5", "6",
              "7", "8", "9", "-"}

\* String.prototype.slice(from, to) with 0 <= from <= to.
slice(str, from, to) ==
    SubSeq(str, from + 1, IF to < Len(str) THEN to ELSE Len(str))

startsWith(str, prefix) ==
    /\ Len(str) >= Len(prefix)
    /\ SubSeq(str, 1, Len(prefix)) = prefix

\* The body of formatLicenseInput on input.value; stripDashes tells whether
\* the dashes already there are removed before the groups are cut.
Format(value, stripDashes) ==
    LET upper == [i \in 1..Len(value) |-> toUpperCaseChar(value[i])]
        kept == SelectSeq(upper, LAMBDA c : c \in KeptChars)
        undashed == IF stripDashes THEN SelectSeq(kept, LAMBDA c : c # "-") ELSE kept
        prefixed == IF ~startsWith(undashed, <<"P", "S">>) /\ Len(undashed) > 0
                    THEN <<"P", "S">> \o undashed
                    ELSE undashed
        v == IF startsWith(prefixed, <<"P", "S">>)
             THEN slice(prefixed, 2, Len(prefixed))
             ELSE prefixed
        g1 == IF Len(v) > 0 THEN <<"-">> \o slice(v, 0, GroupLen) ELSE <<>>
        g2 == IF Len(v) > GroupLen
              THEN <<"-">> \o slice(v, GroupLen, 2 * GroupLen) ELSE <<>>
        g3 == IF Len(v) > 2 * GroupLen
              THEN <<"-">> \o slice(v, 2 * GroupLen, 3 * GroupLen) ELSE <<>>
        formatted == <<"P", "S">> \o g1 \o g2 \o g3
    IN  IF value = NoInput THEN value ELSE slice(formatted, 0, KeyLen)

\* Mutant: the dashes of the value are kept when the groups are cut.
formatLicenseInput_KeepsDashes(value) == Format(value, FALSE)

\* formatLicenseInput: what it leaves in input.value.
formatLicenseInput(value) == Format(value, TRUE)

\* The texts of at most n typed characters.
Texts(n) == UNION {[1..k -> TypedChars] : k \in 1..n}

\* The panel is open, the LicenseManager is not used, the field is empty.
InitFormat ==
    /\ licenses = [k \in {} |-> NoLicense]
    /\ activations = {}
    /\ validation_logs = EmptyBag
    /\ seq = 0
    /\ reqs = EmptyBag
    /\ credit = 0
    /\ sent = NoResponse
    /\ pendingUpd = EmptyBag
    /\ failsLeft = 0
    /\ now = StartTime
    /\ manager = NewManager
    /\ input = NoInput
    /\ files = NoFiles

\* The input event of the field: text was inserted in front of the value or
\* behind it, and the handler formats the value.
InsertText(text, atEnd) ==
    /\ input' = formatLicenseInput(IF atEnd THEN input \o text ELSE text \o input)
    /\ UNCHANGED <<licenses, activations, validation_logs, seq, reqs, credit,
                   sent, pendingUpd, failsLeft, now, manager, files>>

\* A text was pasted into the empty field, or the field was cleared.
ReplaceText(text) ==
    /\ input = NoInput \/ text = NoInput
    /\ input' = formatLicenseInput(text)
    /\ UNCHANGED <<licenses, activations, validation_logs, seq, reqs, credit,
                   sent, pendingUpd, failsLeft, now, manager, files>>

NextFormat ==
    \/ \E c \in TypedChars, atEnd \in BOOLEAN : InsertText(<<c>>, atEnd)
    \/ \E text \in Texts(MaxPaste) \cup {NoInput} : ReplaceText(text)

SpecFormat == InitFormat /\ [][NextFormat]_vars

\* ------------------------------------- simultaneous requests of one pair
\* As SpecBurst, but a machine may send its activate request again while an
\* earlier one is still being handled.
NextPair ==
    \/ \E mid \in {ThisMachine, OtherMachine} :
          Server(ActivateRequest(GoodKey, mid, TRUE, TRUE))
    \/ \E q \in BagToSet(reqs) : Server(ActivateGetActivation(q, TRUE, TRUE, TRUE))
    \/ \E q \in BagToSet(reqs) : Server(ActivateInsert(q, TRUE, TRUE))
    \/ \E u \in BagToSet(pendingUpd) : Server(ExecCounterUpdate(u, TRUE))

SpecPair == InitBurst /\ [][NextPair]_vars

\* ================================================================ claims
LogCount(reason) ==
    LET hits == {e \in BagToSet(validation_logs) : e.reason = reason}
        RECURSIVE Sum(_)
        Sum(S) == IF S = {} THEN 0
                  ELSE LET e == CHOOSE x \in S : TRUE
                       IN  CopiesIn(e, validation_logs) + Sum(S \ {e})
    IN  Sum(hits)

\* C1: N activate requests of N distinct machines against a fresh license
\* with max_activations = M < N, their statements interleaving in any order:
\* once all are answered, exactly M got success and N - M got the
\* activation-limit answer, and the license has at most M Activation rows.
C1_ExactlyMSucceed ==
    LET n == BurstSize - credit
        m == licenses[GoodKey].max_activations
    IN  (reqs = EmptyBag /\ n > m) =>
            /\ LogCount("Activation successful") = m
            /\ LogCount("Activation limit reached") = n - m
            /\ Cardinality(RowsOf(GoodKey)) <= m

\* C2: in every reachable state, current_activations of each license equals
\* the number of Activation rows of its key.
C2_CounterEqualsRows ==
    \A key \in DOMAIN licenses :
        licenses[key].current_activations = Cardinality(RowsOf(key))

\* C3: current_activations <= max_activations in every state a request can
\* observe: in the table, in every license row a handler has read, and the
\* Activation rows of a license never outnumber max_activations.
C3_CapRespected ==
    /\ \A key \in DOMAIN licenses :
          /\ licenses[key].current_activations <= licenses[key].max_activations
          /\ Cardinality(RowsOf(key)) <= licenses[key].max_activations
    /\ \A q \in BagToSet(reqs) :
          q.license.current_activations <= q.license.max_activations

\* The license row of key is stored, active and not past its expiry.
Usable(key) ==
    /\ key \in DOMAIN licenses
    /\ licenses[key].status = "active"
    /\ ~(licenses[key].expires_at # <<>> /\ licenses[key].expires_at[1] < now)

PastExpiry(key) ==
    /\ key \in DOMAIN licenses
    /\ licenses[key].expires_at # <<>>
    /\ licenses[key].expires_at[1] < now

\* Nothing of the activation bookkeeping changes in the step.
StoreUnchanged ==
    /\ activations' = activations
    /\ licenses' = licenses
    /\ pendingUpd' = pendingUpd

\* The rows are the same but for last_validated_at.
Blank(rows) == {[a EXCEPT !.last_validated_at = 0] : a \in rows}
OnlyTouched ==
    /\ Blank(activations') = Blank(activations)
    /\ licenses' = licenses
    /\ pendingUpd' = pendingUpd

C5_SequentialLimit ==
    [][ /\ \A key \in ReqKeys, mid \in SeqMachines :
              (/\ validateLicenseKeyFormat(key) /\ validateMachineId(mid)
               /\ Usable(key)
               /\ ActivateRequest(key, mid, TRUE, TRUE)) =>
                  /\ reqs' = SetToBag({Request("activate", key, mid,
                                               "getActivation", licenses[key])})
                  /\ sent' = sent
                  /\ StoreUnchanged
        /\ \A q \in BagToSet(reqs) :
              (/\ ActivationRows(q.licenseKey, q.machineId) = {}
               /\ ActivateGetActivation(q, TRUE, TRUE, TRUE)) =>
                  LET license == licenses[q.licenseKey]
                  IN  IF license.current_activations < license.max_activations
                      THEN /\ reqs' = Add(Remove(reqs, q), [q EXCEPT !.pc = "insert"])
                           /\ sent' = sent
                           /\ StoreUnchanged
                      ELSE /\ sent' = Response(429, FALSE, LimitText)
                           /\ reqs' = Remove(reqs, q)
                           /\ StoreUnchanged
        /\ \A q \in BagToSet(reqs) :
              ActivateInsert(q, TRUE, TRUE) =>
                  /\ licenses[q.licenseKey].current_activations
                        < licenses[q.licenseKey].max_activations
                  /\ sent'.status = 200 /\ sent'.success
                  /\ sent'.activationId = seq + 1
                  /\ \E a \in activations' :
                        /\ a.license_key = q.licenseKey
                        /\ a.machine_id = q.machineId
                        /\ a.id = seq + 1
                        /\ activations' = activations \cup {a}
                        /\ a \notin activations
                  /\ pendingUpd' = SetToBag({CounterUpdate(q.licenseKey, 1)})
                  /\ licenses' = licenses
        /\ \A u \in BagToSet(pendingUpd) :
              ExecCounterUpdate(u, TRUE) =>
                  LET old == licenses[u.license_key]
                      new == licenses'[u.license_key]
                  IN  /\ new.current_activations = old.current_activations + u.delta
                      /\ new.current_activations = Cardinality(RowsOf(u.license_key))
                      /\ new.current_activations <= new.max_activations
                      /\ activations' = activations
      ]_vars

\* C5 witness: the scenario with max_activations = 2: two machines hold the
\* two rows, the counter is 2 and the third machine was answered 429.
C5_Witness ==
    /\ Quiescent
    /\ sent = Response(429, FALSE, LimitText)
    /\ licenses[GoodKey].max_activations = 2
    /\ licenses[GoodKey].current_activations = 2
    /\ Cardinality(RowsOf(GoodKey)) = 2
    /\ LogCount("Activation successful") = 2
    /\ \E mid \in Machines :
          /\ ActivationRows(GoodKey, mid) = {}
          /\ BagIn(LogEntry(GoodKey, mid, FALSE, "Activation limit reached"),
                   validation_logs)

C7_CheckOrder ==
    [][ \A key \in ReqKeys, mid \in ReqMachines, logOk \in BOOLEAN :
          (/\ validateLicenseKeyFormat(key) /\ validateMachineId(mid)
           /\ ActivateRequest(key, mid, TRUE, logOk)) =>
              IF key \notin DOMAIN licenses
              THEN /\ sent' = Response(404, FALSE, "Invalid license key")
                   /\ StoreUnchanged /\ reqs' = reqs
              ELSE IF licenses[key].status # "active"
              THEN /\ sent' = Response(403, FALSE, "License is not active")
                   /\ StoreUnchanged /\ reqs' = reqs
              ELSE IF PastExpiry(key)
              THEN /\ sent' = Response(410, FALSE, "License has expired")
                   /\ StoreUnchanged /\ reqs' = reqs
              ELSE /\ sent' = sent
                   /\ StoreUnchanged
                   /\ reqs' = Add(reqs, Request("activate", key, mid,
                                                "getActivation", licenses[key]))
      ]_vars

\* C7 witness: a pair that holds an Activation row was answered INACTIVE on
\* a license that is both inactive and expired.
C7_Witness ==
    /\ sent = Response(403, FALSE, "License is not active")
    /\ PastExpiry(GoodKey)
    /\ licenses[GoodKey].status = "inactive"
    /\ \E a \in activations :
          BagIn(LogEntry(a.license_key, a.machine_id, FALSE, "License inactive"),
                validation_logs)

\* C8: deactivate for a pair that has no Activation row answers 404
\* "Activation not found" and changes neither current_activations (no
\* decrement is issued) nor any Activation row.
C8_DeactivateMissing ==
    [][ \A key \in ReqKeys, mid \in ReqMachines :
          (/\ key # Missing /\ mid # NoMachine
           /\ ActivationRows(key, mid) = {}
           /\ DeactivateRequest(key, mid, TRUE)) =>
              /\ sent' = Response(404, FALSE, "Activation not found")
              /\ StoreUnchanged
              /\ reqs' = reqs
      ]_vars

\* C8 witness: the not-found answer while another machine holds a row of
\* the license and the counter is 1.
C8_Witness ==
    /\ sent = Response(404, FALSE, "Activation not found")
    /\ Cardinality(RowsOf(GoodKey)) = 1
    /\ licenses[GoodKey].current_activations = 1
    /\ pendingUpd = EmptyBag

\* C9: current_activations is never negative.
C9_NeverNegative ==
    \A key \in DOMAIN licenses : licenses[key].current_activations >= 0

\* C10: a storage failure never separates the row change from the counter
\* change: once no counter UPDATE of a key is left to execute, its counter
\* equals the number of its Activation rows.
C10_RowAndCounterTogether ==
    \A key \in DOMAIN licenses :
        (\A u \in BagToSet(pendingUpd) : u.license_key # key) =>
            licenses[key].current_activations = Cardinality(RowsOf(key))

\* The step appends exactly one row to validation_logs.
LoggedOnce ==
    /\ validation_logs \sqsubseteq validation_logs'
    /\ BagCardinality(validation_logs') = BagCardinality(validation_logs) + 1

\* C11: every step that answers an activate, validate or deactivate request
\* that passed the handler's input checks appends exactly one row to
\* validation_logs (no statement failing); a request rejected by the input
\* checks appends none; no step removes or changes a row of the log.
C11_OneLogPerRequest ==
    [][ /\ validation_logs \sqsubseteq validation_logs'
        /\ (credit' # credit) =>
              \A key \in ReqKeys, mid \in ReqMachines :
                 /\ (/\ validateLicenseKeyFormat(key) /\ validateMachineId(mid)
                     /\ ActivateRequest(key, mid, TRUE, TRUE)
                     /\ reqs' = reqs) => LoggedOnce
                 /\ (/\ ~(validateLicenseKeyFormat(key) /\ validateMachineId(mid))
                     /\ ActivateRequest(key, mid, TRUE, TRUE)) =>
                        validation_logs' = validation_logs
                 /\ (/\ key # Missing /\ mid # NoMachine
                     /\ ValidateRequest(key, mid, TRUE, TRUE)) => LoggedOnce
                 /\ (/\ key # Missing /\ mid # NoMachine
                     /\ DeactivateRequest(key, mid, TRUE)) => LoggedOnce
        /\ (reqs' # reqs) =>
              \A q \in BagToSet(reqs) :
                 /\ (ActivateGetActivation(q, TRUE, TRUE, TRUE) /\ reqs' = Remove(reqs, q))
                        => LoggedOnce
                 /\ ActivateInsert(q, TRUE, TRUE) => LoggedOnce
      ]_vars

\* C12: a request whose key differs from a stored license key only in
\* letter case addresses that license: activate and validate do not answer
\* not found, deactivate finds the pair's Activation row, and every
\* Activation row is stored under the upper-case key.
C12_CaseInsensitiveKeys ==
    [][ /\ \A a \in activations' : a.license_key = toUpperCase(a.license_key)
        /\ (credit' # credit) =>
              \A key \in CaseKeys, mid \in ReqMachines :
                 (validateMachineId(mid) /\ toUpperCase(key) \in DOMAIN licenses) =>
                    /\ ActivateRequest(key, mid, TRUE, TRUE) => sent'.status # 404
                    /\ ValidateRequest(key, mid, TRUE, TRUE) => sent'.status # 404
                    /\ (/\ ActivationRows(toUpperCase(key), mid) # {}
                        /\ DeactivateRequest(key, mid, TRUE)) => sent'.status # 404
      ]_vars

\* C13: validate with both fields present whose statement succeeds answers
\* 404 when the license row is missing, else 403 when the machine has no
\* Activation row (also on an expired license), else 410 when expires_at is
\* past, else success with the stored status and expires_at, the row's
\* last_validated_at touched; it changes nothing else.
C13_ValidateClassifies ==
    [][ (credit' # credit) =>
          \A key \in ReqKeys, mid \in ReqMachines, touchOk \in BOOLEAN :
             (/\ key # Missing /\ mid # NoMachine
              /\ ValidateRequest(key, mid, TRUE, touchOk)) =>
                /\ OnlyTouched
                /\ reqs' = reqs
                /\ validation_logs' = validation_logs
                /\ IF key \notin DOMAIN licenses
                   THEN /\ sent' = Response(404, FALSE, "License not found")
                        /\ activations' = activations
                   ELSE IF ActivationRows(key, mid) = {}
                   THEN /\ sent' = Response(403, FALSE,
                                            "License not activated on this device")
                        /\ activations' = activations
                   ELSE IF PastExpiry(key)
                   THEN /\ sent' = Response(410, FALSE, "License expired")
                        /\ activations' = activations
                   ELSE /\ sent'.status = 200 /\ sent'.success
                        /\ sent'.licenseStatus = licenses[key].status
                        /\ sent'.expiresAt = licenses[key].expires_at
                        /\ touchOk => \A a \in activations' :
                               (a.license_key = key /\ a.machine_id = mid) =>
                                   a.last_validated_at = now
      ]_vars

\* C13 witness: a machine without an Activation row was answered not
\* activated on a license that exists and is past its expiry.
C13_Witness ==
    /\ sent = Response(403, FALSE, "License not activated on this device")
    /\ PastExpiry(GoodKey)
    /\ activations = {}

\* The server logged this outcome for the pair the installation sent.
Logged(success, reason) ==
    BagIn(LogEntry(manager.licenseKey, manager.machineId, success, reason),
          validation_logs)

\* C14: when activateLicense reads the response to its request, the result it
\* returns follows the outcome the activate handler reached: 404 (logged
\* License not found) and 403 (License inactive) give LICENSE_INVALID, 410
\* (License expired) gives LICENSE_EXPIRED, 429 (Activation limit reached)
\* gives LICENSE_LIMIT_REACHED, a 200 with success gives success: true, and
\* every other answer (400, 500, a 200 without success) gives SERVER_ERROR;
\* success is returned for a 200 with success only.
C14_StatusToErrorType ==
    [][ /\ \A status \in {200, 400, 500} : ActivateErrorType(status) = "SERVER_ERROR"
        /\ activateLicenseResponse(TRUE, TRUE) =>
              LET r == manager'.result
              IN  /\ r.op = "activateLicense"
                  /\ r.success <=> (sent.status = 200 /\ sent.success)
                  /\ r.success <=> r.errorType = ""
                  /\ r.success =>
                        \/ Logged(TRUE, "Activation successful")
                        \/ Logged(TRUE, "Re-validation successful")
                  /\ sent.status = 404 <=>
                        (r.errorType = "LICENSE_INVALID" /\ r.error = "Invalid license key")
                  /\ sent.status = 404 =>
                        (Logged(FALSE, "License not found")
                           /\ manager.licenseKey \notin DOMAIN licenses)
                  /\ sent.status = 403 <=>
                        (r.errorType = "LICENSE_INVALID" /\ r.error = "License is not active")
                  /\ sent.status = 403 => Logged(FALSE, "License inactive")
                  /\ sent.status = 410 <=> r.errorType = "LICENSE_EXPIRED"
                  /\ sent.status = 410 => Logged(FALSE, "License expired")
                  /\ sent.status = 429 <=> r.errorType = "LICENSE_LIMIT_REACHED"
                  /\ sent.status = 429 => Logged(FALSE, "Activation limit reached")
                  /\ (sent.status \notin {403, 404, 410, 429} /\ ~r.success)
                        <=> r.errorType = "SERVER_ERROR"
      ]_vars

\* C14 witness: the installation was told that its license has expired, the
\* server having logged that outcome for its pair.
C14_Witness ==
    /\ manager.pc = "idle"
    /\ manager.result.op = "activateLicense"
    /\ manager.result.errorType = "LICENSE_EXPIRED"
    /\ Logged(FALSE, "License expired")

\* C15: activateLicense called with a key that is absent or, trimmed and in
\* upper case, not of the form PS-XXXX-XXXX-XXXX returns success: false with
\* errorType VALIDATION_ERROR and the validator's message; the call resolves
\* no machine id, touches neither localStorage nor a file (whether or not
\* they work), sends no request and leaves the activation state in memory
\* as it was.
C15_ValidatesFirst ==
    [][ \A rawKey \in RawKeys, lsOk \in BOOLEAN, fsOk \in BOOLEAN,
           gen \in {ThisMachine, OtherMachine},
           net \in {"delivered", "refused", "aborted"} :
           (/\ rawKey = Missing \/ toUpperCase(trim(rawKey)) \notin WellFormedKeys
            /\ activateLicense(rawKey, lsOk, fsOk, gen, net, TRUE, TRUE)) =>
              /\ manager'.result.op = "activateLicense"
              /\ ~manager'.result.success
              /\ manager'.result.errorType = "VALIDATION_ERROR"
              /\ manager'.result.error = validateLicenseKey(rawKey).error
              /\ manager'.result.handled = {}
              /\ manager'.pc = "idle"
              /\ manager'.machineId = manager.machineId
              /\ manager'.activationState = manager.activationState
              /\ files' = files
              /\ UNCHANGED <<licenses, activations, validation_logs, seq, reqs,
                             credit, sent, pendingUpd, failsLeft, now>>
      ]_vars

\* C15 witness: an activated installation that resolved no machine id since
\* it was started was told that the key it typed is malformed.
C15_Witness ==
    /\ manager.result.op = "activateLicense"
    /\ manager.result.errorType = "VALIDATION_ERROR"
    /\ manager.result.error = "Invalid format. Use: PS-XXXX-XXXX-XXXX"
    /\ manager.machineId = NoMachine
    /\ isActivated
    /\ files.activation_state.kind = "json"

\* C16: with the server unreachable, activateLicense with a well-formed key
\* returns TIMEOUT_ERROR when its fetch is aborted and NETWORK_ERROR when the
\* connection is refused, validateWithServer returns an offline result and
\* checkServerStatus reports the server down; none of them changes the
\* activation state in memory or the file activation.state, and no step but
\* resetLicense changes that file.
C16_OfflineKeepsState ==
    [][ LET kept == /\ manager'.activationState = manager.activationState
                    /\ files'.activation_state = files.activation_state
        IN  /\ manager'.result.op # "resetLicense" =>
                   files'.activation_state = files.activation_state
            /\ manager'.result.op \notin {"resetLicense", "loadActivationState"} => kept
            /\ \A rawKey \in {GoodKey, PaddedKey}, lsOk \in BOOLEAN, fsOk \in BOOLEAN,
                  gen \in {ThisMachine, OtherMachine} :
                  /\ activateLicense(rawKey, lsOk, fsOk, gen, "aborted", TRUE, TRUE) =>
                        /\ manager'.result.errorType = "TIMEOUT_ERROR"
                        /\ ~manager'.result.success
                        /\ kept
                  /\ activateLicense(rawKey, lsOk, fsOk, gen, "refused", TRUE, TRUE) =>
                        /\ manager'.result.errorType = "NETWORK_ERROR"
                        /\ ~manager'.result.success
                        /\ kept
            /\ \A argKey \in {Missing, GoodKey}, lsOk \in BOOLEAN, fsOk \in BOOLEAN,
                  gen \in {ThisMachine, OtherMachine} :
                  validateWithServer(argKey, lsOk, fsOk, gen, "refused", TRUE, TRUE) => kept
            /\ checkServerStatus(FALSE) => (kept /\ ~manager'.result.success)
      ]_vars

\* C16 witness: an installation activated 40 days ago, started and its
\* activateLicense timed out, is still activated with the key and the
\* timestamp of its file.
C16_Witness ==
    /\ manager.result.op = "activateLicense"
    /\ manager.result.errorType = "TIMEOUT_ERROR"
    /\ isActivated
    /\ manager.activationState =
          StateData(TRUE, GoodKey, ClientStart - (WarnDays + 10) * DayMs, ThisMachine)
    /\ files.activation_state = File("json", manager.activationState)

\* C17: whenever activateLicense returns success: true, the file
\* activation.state holds {active: true, licenseKey: the normalized key,
\* timestamp: now, machineId}, so that the next loadActivationState returns
\* an active state for that key.
C17_SuccessIsPersisted ==
    [][ (/\ manager.pc = "activate" /\ manager'.pc = "idle"
         /\ manager'.result.op = "activateLicense" /\ manager'.result.success) =>
          /\ files'.activation_state =
                File("json", StateData(TRUE, manager.licenseKey, now, manager.machineId))
          /\ manager'.activationState = files'.activation_state.data
      ]_vars

\* C18: when validateWithServer reaches the server and receives its success
\* answer for the pair, the activation state is overwritten as by a
\* successful activate: in memory and in activation.state it is active with
\* timestamp = now, so that getOfflineModeDays is 0 right afterwards.
C18_ValidateRefreshesState ==
    [][ (/\ credit' # credit
         /\ \E argKey \in {Missing, GoodKey}, gen \in {ThisMachine, OtherMachine} :
               validateWithServer(argKey, TRUE, TRUE, gen, "delivered", TRUE, TRUE)
         /\ sent'.status = 200 /\ sent'.success) =>
          /\ ~manager'.activationState.isNull
          /\ manager'.activationState.active
          /\ manager'.activationState.timestamp = now
          /\ files'.activation_state = File("json", manager'.activationState)
      ]_vars

C20_ResetClearsState ==
    [][ \A deleteOk \in BOOLEAN :
           resetLicense(deleteOk) =>
              /\ manager'.result.success
              /\ ~isActivated'
              /\ ~(loadActivationState(TRUE)').active
      ]_vars

\* C21: an installation that was never activated (no Activation row, no
\* state in memory or in activation.state) gets no licensed or valid outcome
\* while the server is unreachable: activateLicense with a well-formed key
\* ends with NETWORK_ERROR or TIMEOUT_ERROR, validateWithServer does not
\* return valid: true, and isActivated stays false.
C21_FreshOfflineNotValid ==
    activations = {} =>
       /\ ~isActivated
       /\ files.activation_state.kind # "json"
       /\ manager.result.op = "activateLicense" =>
             /\ ~manager.result.success
             /\ manager.result.errorType \in
                   {"VALIDATION_ERROR", "NETWORK_ERROR", "TIMEOUT_ERROR"}
       /\ manager.result.op = "validateWithServer" => ~manager.result.valid

\* C22: the machine id that getMachineId returned (and caches) is 32
\* hexadecimal characters, so it passes the server's validateMachineId; a
\* stored value that is not is never returned.
C22_MachineIdIsHex ==
    manager.machineId # NoMachine => validateMachineId(manager.machineId)

\* C23: when localStorage and the file system both fail, activateLicense
\* with a well-formed key still gets a freshly generated machine id, reports
\* STORAGE_ERROR through the error handler, stores the id nowhere, caches it
\* and sends the activate request with it; a cached id is returned again by
\* every later call until the plugin is started anew.
C23_SessionOnlyId ==
    [][ /\ (manager.machineId # NoMachine /\ manager'.result.op # "loadActivationState")
              => manager'.machineId = manager.machineId
        /\ (credit' # credit) =>
              \A rawKey \in {GoodKey, PaddedKey}, gen \in {ThisMachine, OtherMachine} :
                 activateLicense(rawKey, FALSE, FALSE, gen, "delivered", TRUE, TRUE) =>
                    /\ manager'.machineId = gen
                    /\ "STORAGE_ERROR" \in manager'.result.handled
                    /\ files'.localStorage = files.localStorage
                    /\ files'.machine_id = files.machine_id
                    /\ manager'.pc = "activate"
                    /\ \E q \in BagToSet(reqs') :
                          /\ q.op = "activate"
                          /\ q.licenseKey = GoodKey
                          /\ q.machineId = gen
      ]_vars

\* C23 witness: the installation was activated with an id that is in
\* neither store, and the degraded storage was reported.
C23_Witness ==
    /\ manager.result.op = "activateLicense"
    /\ manager.result.success
    /\ "STORAGE_ERROR" \in manager.result.handled
    /\ files.localStorage = NoMachine
    /\ files.machine_id = NoMachine
    /\ ActivationRows(GoodKey, manager.machineId) # {}
    /\ isActivated

\* PS-XXXX-XXXX-XXXX with X in 0-9, A-F.
WellFormed(value) ==
    /\ Len(value) = KeyLen
    /\ \A i \in 1..KeyLen :
          IF i = 1 THEN value[i] = "P"
          ELSE IF i = 2 THEN value[i] = "S"
          ELSE IF i \in {3, 8, 13} THEN value[i] = "-"
          ELSE value[i] \in KeptChars \ {"-"}

\* The claim of C24 about one string x.
FormatsOnce(x) ==
    LET once == formatLicenseInput(x)
    IN  /\ formatLicenseInput(once) = once
        /\ Len(once) <= KeyLen
        /\ WellFormed(x) => once = x

\* C24: for every string x that reaches the formatter (the value with a
\* text inserted in front or behind, or a pasted text), formatting the
\* formatted x gives the formatted x, the result has at most 17 characters,
\* and a well-formed PS-XXXX-XXXX-XXXX x is left as it is; the value of the
\* field is always a fixed point of the formatter.
C24_FormatIdempotent ==
    /\ formatLicenseInput(input) = input
    /\ \A c \in TypedChars :
          /\ FormatsOnce(input \o <<c>>)
          /\ FormatsOnce(<<c>> \o input)
    /\ input = NoInput => \A text \in Texts(MaxPaste) : FormatsOnce(text)

\* C24 witness: the field holds a complete key, typed in lower case.
C24_Witness ==
    /\ WellFormed(input)
    /\ \E i \in 1..Len(input) : input[i] = "A"
    /\ \E i \in 1..Len(input) : input[i] = "4"

\* C25: activate requests of the same (key, machineId) pair handled at the
\* same time, in any interleaving of their callbacks, leave at most one
\* Activation row for the pair, and every row raised current_activations by
\* exactly 1 (the UPDATEs executed and those still queued together are as
\* many as the rows); once all are answered, a pair that was answered
\* success has exactly one row.
C25_OneRowPerPair ==
    /\ \A mid \in {ThisMachine, OtherMachine} :
          /\ Cardinality(ActivationRows(GoodKey, mid)) <= 1
          /\ (\E e \in BagToSet(validation_logs) : e.machine_id = mid /\ e.success = 1)
                => Cardinality(ActivationRows(GoodKey, mid)) = 1
    /\ licenses[GoodKey].current_activations + BagCardinality(pendingUpd)
          = Cardinality(activations)

\* C25 witness: two requests of one pair both passed the look-up before
\* either inserted; one inserted, the other was refused by the table, and
\* the counter is 1.
C25_Witness ==
    /\ reqs = EmptyBag
    /\ pendingUpd = EmptyBag
    /\ sent = Response(500, FALSE, "Failed to activate")
    /\ Cardinality(activations) = 1
    /\ licenses[GoodKey].current_activations = 1

\* C26: when validateWithServer receives the answer of the validate handler,
\* it returns valid: true (not offline) exactly when that answer is the
\* success answer for the pair, and otherwise valid: false with the error
\* text of the answer.
C26_ValidateReadingAgrees ==
    [][ (/\ credit' # credit
         /\ \E argKey \in {Missing, GoodKey}, gen \in {ThisMachine, OtherMachine} :
               validateWithServer(argKey, TRUE, TRUE, gen, "delivered", TRUE, TRUE)) =>
          /\ manager'.result.valid <=> (sent'.status = 200 /\ sent'.success)
          /\ ~manager'.result.valid => manager'.result.error = sent'.text
      ]_vars

\* C27: for a pair that has an Activation row on a license whose status is
\* not 'active' and which is not past expiry, validate (its statement
\* succeeding) answers success and echoes the stored status, while activate
\* for the same pair is answered 403 'License is not active' and changes no
\* Activation row.
C27_ValidateIgnoresStatus ==
    [][ (credit' # credit) =>
          \A key \in DOMAIN licenses, mid \in ReqMachines :
             (/\ licenses[key].status # "active"
              /\ ActivationRows(key, mid) # {}
              /\ ~PastExpiry(key)) =>
                /\ \A touchOk \in BOOLEAN :
                      ValidateRequest(key, mid, TRUE, touchOk) =>
                         /\ sent'.status = 200 /\ sent'.success
                         /\ sent'.licenseStatus = "inactive"
                         /\ sent'.licenseStatus = licenses[key].status
                /\ \A logOk \in BOOLEAN :
                      ActivateRequest(key, mid, TRUE, logOk) =>
                         /\ sent' = Response(403, FALSE, "License is not active")
                         /\ activations' = activations
      ]_vars

\* C27 witness: validate answered success with status 'inactive' for a pair
\* of a deactivated license.
C27_Witness ==
    /\ sent.status = 200
    /\ sent.success
    /\ sent.licenseStatus = "inactive"
    /\ licenses[GoodKey].status = "inactive"
    /\ activations # {}

\* C28: when activateLicense reads an answer that is not a 200 with
\* success, it returns success: false and leaves the activation state in
\* memory, the file activation.state and the stored machine id as they
\* were; an activated installation is then still activated.
C28_RejectionKeepsState ==
    [][ (activateLicenseResponse(TRUE, TRUE) /\ ~(sent.status = 200 /\ sent.success)) =>
          /\ ~manager'.result.success
          /\ manager'.result.errorType # ""
          /\ manager'.activationState = manager.activationState
          /\ files' = files
          /\ isActivated => isActivated'
      ]_vars

\* C28 witness: an activated installation asked again, was told that its
\* license has expired, and is still activated in memory and on disk.
C28_Witness ==
    /\ manager.result.op = "activateLicense"
    /\ manager.result.errorType = "LICENSE_EXPIRED"
    /\ isActivated
    /\ files.activation_state = File("json", manager.activationState)

\* The machine ids that the server answered success.
ActivatedIds ==
    {e.machine_id : e \in {l \in BagToSet(validation_logs) : l.success = 1}}

\* C29: resetLicense changes nothing on the server and keeps the cached
\* machine id, so the Activation row of the machine and current_activations
\* stay; activating again under the same machine id adds no row and no
\* increment, and activating under another machine id adds one row and one
\* increment: there is exactly one row, counted once, for every machine id
\* that was answered success.
C29_ResetKeepsSlot ==
    [][ /\ \A deleteOk \in BOOLEAN :
              resetLicense(deleteOk) =>
                 /\ UNCHANGED <<licenses, activations, validation_logs, seq, reqs,
                                credit, sent, pendingUpd>>
                 /\ manager'.machineId = manager.machineId
                 /\ ~isActivated'
        /\ Cardinality(activations') = Cardinality(ActivatedIds')
        /\ \A mid \in ActivatedIds' : Cardinality(ActivationRows(GoodKey, mid)') = 1
        /\ licenses'[GoodKey].current_activations + BagCardinality(pendingUpd')
              = Cardinality(activations')
      ]_vars

\* C29 witness: the installation was reset, activated again under the id
\* it had and was answered that the device is already activated; the
\* license still counts one activation.
C29_Witness ==
    /\ manager.result.op = "activateLicense"
    /\ manager.result.success
    /\ sent = Response(200, TRUE, "License already activated on this device")
    /\ BagIn(LogEntry(GoodKey, manager.machineId, TRUE, "Re-validation successful"),
             validation_logs)
    /\ Cardinality(activations) = 1
    /\ licenses[GoodKey].current_activations = 1

\* In this step no request gets two responses and no response is sent for
\* nothing: a request that arrives is answered at once or joins the
\* requests in flight without a response; a request leaves the requests in
\* flight alone, with its response; a response is sent only so.
OneResponse ==
    LET n == BagCardinality(reqs)
        m == BagCardinality(reqs')
    IN  /\ m \in {n - 1, n, n + 1}
        /\ credit' \in {credit, credit - 1}
        /\ m = n + 1 => (credit' = credit - 1 /\ sent' = sent)
        /\ m = n - 1 => (credit' = credit /\ reqs' \sqsubseteq reqs)
        /\ credit' = credit - 1 => (m = n => reqs' = reqs)
        /\ sent' # sent => \/ (credit' = credit - 1 /\ reqs' = reqs)
                            \/ (credit' = credit /\ m = n - 1)

====
